---- MODULE Spec2Model ----
(***************************************************************************)
(* A model of the content-risk scoring engine of the secure proxy:         *)
(* SecurityAnalyzer (analyzeText, analyzePDF, isContentSafe, detectPII,    *)
(* detectMaliciousContent, calculateSafetyScore, setThreshold) from        *)
(* src/cpp/securityAnalyzer/SecurityAnalyzer.cpp, and MLInference          *)
(* (loadModel, predict, extractFeatures) from                              *)
(* src/cpp/mlInterface/MLInference.cpp.                                    *)
(*                                                                         *)
(* Strings are TLA+ strings; Len, SubSeq and \o act on them character by   *)
(* character.  Doubles are integers counting hundredths (1.0 is 100), with *)
(* one extra value NaN that every comparison rejects.                      *)
(***************************************************************************)
EXTENDS Integers, Sequences, FiniteSets, TLC

VARIABLES
  threshold_,  \* SecurityAnalyzer::threshold_
  call,        \* the most recent call on the analyzer
  result,      \* what that call returned
  earlier,     \* history: an analyzeText call made since the threshold was set
  session,     \* MLInference::session, TRUE when it holds an Ort::Session
  loads,       \* history: what the loadModel calls so far returned
  ml,          \* the most recent call on the MLInference object, with its outcome
  pdf_call     \* an analyzePDF call running beside setThreshold: where it is

vars == <<threshold_, call, result, earlier, session, loads, ml, pdf_call>>

----------------------------------------------------------------------------
(* std::string primitives *)

UpperCase == "ABCDEFGHIJKLMNOPQRSTUVWXYZ"

LowerCase == "abcdefghijklmnopqrstuvwxyz"

Digits == "0123456789"

CharAt(s, i) == SubSeq(s, i, i)

CharsOf(s) == {CharAt(s, i) : i \in 1..Len(s)}

\* ::tolower on one character (C locale): A-Z map to a-z, all else unchanged.
tolower(c) ==
  IF \E i \in 1..Len(UpperCase) : CharAt(UpperCase, i) = c
  THEN CharAt(LowerCase, CHOOSE i \in 1..Len(UpperCase) : CharAt(UpperCase, i) = c)
  ELSE c

\* The text matched as it is written.
transform_tolower_asWritten(s) == s

\* std::transform(begin, end, begin, ::tolower)
RECURSIVE transform_tolower(_)
transform_tolower(s) ==
  IF Len(s) = 0 THEN ""
  ELSE tolower(CharAt(s, 1)) \o transform_tolower(SubSeq(s, 2, Len(s)))

\* s.find(pattern) != std::string::npos
find(s, pattern) ==
  \E i \in 1..(Len(s) - Len(pattern) + 1) :
    SubSeq(s, i, i + Len(pattern) - 1) = pattern

----------------------------------------------------------------------------
(* The pattern lists of detectMaliciousContent, literal by literal *)

\* The backquote character (cmd_patterns' 11th literal) cannot be written in
\* a TLA+ string; the tilde, which no pattern and no text here uses, stands
\* for it.
BACKQUOTE == "~"

sql_patterns ==
  <<
    "' or '", "' or 1=1", "' or 1=1--", "' or '1'='1", "' or \"1\"=\"1",
    "' union select", "union all select", "' having '", "' group by '",
    "' order by ", "' drop table", "'; drop table", "' delete from",
    "' insert into", "' update ", "' alter table", "' create table",
    "' truncate ", "'; exec", "'; execute", "xp_cmdshell", "sp_executesql",
    "benchmark(", "sleep(", "waitfor delay", "pg_sleep(", "extractvalue(",
    "updatexml(", "load_file(", "into outfile", "information_schema",
    "mysql.user", "sysobjects", "syscolumns"
  >>

xss_patterns ==
  <<
    "<script", "</script>", "javascript:", "vbscript:", "onload=",
    "onerror=", "onclick=", "onmouseover=", "onfocus=", "onblur=",
    "onchange=", "onsubmit=", "onreset=", "onkeydown=", "onkeyup=",
    "onkeypress=", "document.cookie", "document.write", "window.location",
    "eval(", "settimeout(", "setinterval(", "innerhtml=", "outerhtml=",
    "document.getelementbyid", "alert(", "confirm(", "prompt(",
    "fromcharcode(", "unescape(", "string.fromcharcode"
  >>

cmd_patterns ==
  <<
    "; rm -rf", "; del ", "& echo", "| nc ", "| netcat", "; wget", "; curl",
    "; cat /etc/passwd", "; cat /etc/shadow", "$(", BACKQUOTE, "; ls -la",
    "; dir", "; whoami", "; id", "; uname", "; ps aux", "; netstat",
    "; ifconfig", "; ping", "; nslookup", "; dig", "; chmod +x", "; ./",
    "&&", "||", "; sh", "; bash", "; cmd", "; powershell", "& type",
    "& copy", "& move", "& ren"
  >>

nosql_patterns ==
  <<
    "$where", "$ne", "$in", "$nin", "$regex", "$exists", "$elemMatch", "$gt",
    "$gte", "$lt", "$lte", "$or", "$and", "$not", "$nor", "this.password",
    "this.username", "db.eval", "mapreduce", "return true", "return false",
    "; return ", "var x=", "var y="
  >>

ldap_patterns ==
  <<
    ")(cn=*", ")(uid=*", ")(mail=*", ")(&", ")(|", "*)(uid=*", "*)(cn=*",
    "admin*", "*admin", ")(objectclass=*"
  >>

path_patterns ==
  <<
    "../", "..\\", "%2e%2e%2f", "%2e%2e%5c", "....//", "....\\\\",
    "/etc/passwd", "/etc/shadow", "/etc/hosts", "c:\\windows\\system32",
    "boot.ini", "web.config", ".env", ".htaccess", "/proc/self/environ"
  >>

xml_patterns ==
  <<
    "<!entity", "<!doctype", "system \"file://", "system \"http://",
    "system \"ftp://", "%xxe;", "&xxe;", "xml version=", "<?xml"
  >>

template_patterns ==
  <<
    "{{", "}}", "${", "#{", "<%", "%>", "@{", "[[", "]]", "__import__",
    "getattr(", "setattr(", "__builtins__", "exec(", "eval(", "compile(",
    "__globals__"
  >>

exec_patterns ==
  <<
    "system(", "exec(", "shell_exec(", "passthru(", "popen(", "proc_open(",
    "eval(", "base64_decode", "file_get_contents(", "fopen(", "fwrite(",
    "unlink(", "chmod(", "chown(", "mkdir(", "rmdir(", "symlink(",
    "readfile(", "include(", "require(", "preg_replace(", "create_function(",
    "call_user_func(", "__import__(", "getattr(", "setattr(", "hasattr(",
    "delattr(", "globals(", "locals(", "vars(", "dir(", "compile(",
    "execfile(", "input(", "raw_input(", "open(", "file(", "__builtins__",
    "function(", "new function", "constructor(", "apply(", "call(", "bind(",
    "with(", "delete ", "void(", "typeof ", "cmd.exe", "/bin/sh",
    "/bin/bash", "powershell.exe", "sh.exe", "bash.exe", "python.exe",
    "perl.exe", "ruby.exe", "java.exe", "curl(", "wget(", "fetch(",
    "xmlhttprequest", "ajax(", "socket(", "connect(", "bind(", "listen(",
    "accept("
  >>

suspicious_patterns ==
  <<
    "base64", "hex2bin", "bin2hex", "rot13", "str_rot13", "gzinflate(",
    "gzuncompress(", "bzdecompress(", "mcrypt_decrypt(", "openssl_decrypt(",
    "password_verify(", "crypt(", "md5(", "sha1(", "hash(", "hash_hmac("
  >>

----------------------------------------------------------------------------
(* detectMaliciousContent *)

\* The same loop without the break: one issue per pattern that occurs.
FirstMatchLoop_noBreak(hay, patterns, issue) ==
  LET hits == SelectSeq(patterns, LAMBDA p : find(hay, p))
  IN  [k \in 1..Len(hits) |-> issue]

\* for (pattern : patterns) if (hay.find(pattern) != npos) { push_back(issue); break; }
FirstMatchLoop(hay, patterns, issue) ==
  IF \E k \in 1..Len(patterns) : find(hay, patterns[k])
  THEN <<issue>>
  ELSE <<>>

\* for (pattern : patterns) if (hay.find(pattern) != npos) push_back(prefix + pattern);
EveryMatchLoop(hay, patterns, prefix) ==
  LET hits == SelectSeq(patterns, LAMBDA p : find(hay, p))
  IN  [k \in 1..Len(hits) |-> prefix \o hits[k]]

detectMaliciousContent(text) ==
  LET text_lower == transform_tolower(text)
  IN  FirstMatchLoop(text_lower, sql_patterns,
                     "Potential SQL injection attempt detected")
      \o FirstMatchLoop(text_lower, xss_patterns,
                        "Potential XSS attack detected")
      \o FirstMatchLoop(text_lower, cmd_patterns,
                        "Potential command injection attempt detected")
      \o FirstMatchLoop(text_lower, nosql_patterns,
                        "Potential NoSQL injection attempt detected")
      \o FirstMatchLoop(text_lower, ldap_patterns,
                        "Potential LDAP injection attempt detected")
      \o FirstMatchLoop(text_lower, path_patterns,
                        "Potential path traversal attempt detected")
      \o FirstMatchLoop(text_lower, xml_patterns,
                        "Potential XML/XXE injection attempt detected")
      \o FirstMatchLoop(text, template_patterns,
                        "Potential template injection attempt detected")
      \o EveryMatchLoop(text_lower, exec_patterns,
                        "Potential code execution attempt detected: ")
      \o EveryMatchLoop(text_lower, suspicious_patterns,
                        "Suspicious function detected: ")

----------------------------------------------------------------------------
(* boost::regex (Perl syntax), as far as the three PII patterns use it.    *)
(* A pattern is a tree: a character class, a word boundary, a             *)
(* concatenation, an alternation or a bounded/unbounded repetition.        *)

WordChars == CharsOf(UpperCase) \cup CharsOf(LowerCase) \cup CharsOf(Digits) \cup {"_"}

\* \s
SpaceChars == {" ", "\t", "\n", "\r", "\f"}

Cls(set) == [t |-> "cls", set |-> set]

Lit(c) == Cls({c})

WordBoundary == [t |-> "wb"]

Cat(items) == [t |-> "cat", items |-> items]

Alt(items) == [t |-> "alt", items |-> items]

\* r{lo,hi}; hi < 0 stands for "no upper limit"
Rep(r, lo, hi) == [t |-> "rep", r |-> r, lo |-> lo, hi |-> hi]

Opt(r) == Rep(r, 0, 1)

Plus(r) == Rep(r, 1, -1)

IsWordAt(s, i) == i >= 1 /\ i <= Len(s) /\ CharAt(s, i) \in WordChars

\* MatchEnds(r, s, i): every position j such that r matches s[i .. j-1].
RECURSIVE MatchEnds(_, _, _)
RECURSIVE MatchCat(_, _, _, _)
RECURSIVE MatchRep(_, _, _, _)
MatchEnds(r, s, i) ==
  CASE r.t = "cls" -> IF i <= Len(s) /\ CharAt(s, i) \in r.set THEN {i + 1} ELSE {}
    [] r.t = "wb"  -> IF IsWordAt(s, i - 1) # IsWordAt(s, i) THEN {i} ELSE {}
    [] r.t = "cat" -> MatchCat(r.items, 1, s, {i})
    [] r.t = "alt" -> UNION {MatchEnds(r.items[k], s, i) : k \in 1..Len(r.items)}
    [] r.t = "rep" -> MatchRep(r, s, {i}, 0)

MatchCat(items, k, s, starts) ==
  IF k > Len(items) \/ starts = {} THEN starts
  ELSE MatchCat(items, k + 1, s, UNION {MatchEnds(items[k], s, j) : j \in starts})

\* cur: the positions reached after n repetitions of r.r
MatchRep(r, s, cur, n) ==
  LET here == IF n >= r.lo THEN cur ELSE {}
      more == IF r.hi >= 0 /\ n >= r.hi THEN {}
              ELSE UNION {MatchEnds(r.r, s, j) : j \in cur}
  IN  IF more = {} THEN here ELSE here \cup MatchRep(r, s, more, n + 1)

\* boost::regex_search(text, matches, pattern): a match starts somewhere
regex_search(s, pattern) ==
  \E i \in 1..(Len(s) + 1) : MatchEnds(pattern, s, i) # {}

----------------------------------------------------------------------------
(* The PII patterns *)

Alnum == CharsOf(UpperCase) \cup CharsOf(LowerCase) \cup CharsOf(Digits)

Alpha == CharsOf(UpperCase) \cup CharsOf(LowerCase)

\* \d
D == Cls(CharsOf(Digits))

\* [2-9]
D29 == Cls(CharsOf("23456789"))

\* [\s\-\.]
Sep == Cls(SpaceChars \cup {"-", "."})

\* [a-zA-Z0-9._%+-]+@[a-zA-Z0-9.-]+\.[a-zA-Z]{2,}
email_pattern ==
  Cat(<< Plus(Cls(Alnum \cup {".", "_", "%", "+", "-"})),
         Lit("@"),
         Plus(Cls(Alnum \cup {".", "-"})),
         Lit("."),
         Rep(Cls(Alpha), 2, -1) >>)

\* \b(?:\+1[\s\-\.]?)?(?:\([2-9]\d{2}\)[\s\-\.]?|[2-9]\d{2}[\s\-\.])[2-9]\d{2}[\s\-\.]\d{4}\b
\*   |\b(?:\+\d{1,3}[\s\-\.])?(?:\d{3}[\s\-\.]\d{3}[\s\-\.]\d{4})\b
phone_pattern ==
  Alt(<< Cat(<< WordBoundary,
                Opt(Cat(<<Lit("+"), Lit("1"), Opt(Sep)>>)),
                Alt(<< Cat(<<Lit("("), D29, Rep(D, 2, 2), Lit(")"), Opt(Sep)>>),
                       Cat(<<D29, Rep(D, 2, 2), Sep>>) >>),
                D29, Rep(D, 2, 2), Sep, Rep(D, 4, 4),
                WordBoundary >>),
         Cat(<< WordBoundary,
                Opt(Cat(<<Lit("+"), Rep(D, 1, 3), Sep>>)),
                Cat(<<Rep(D, 3, 3), Sep, Rep(D, 3, 3), Sep, Rep(D, 4, 4)>>),
                WordBoundary >>) >>)

\* \b\d{3}-\d{2}-\d{4}\b
ssn_pattern ==
  Cat(<< WordBoundary, Rep(D, 3, 3), Lit("-"), Rep(D, 2, 2), Lit("-"),
         Rep(D, 4, 4), WordBoundary >>)

----------------------------------------------------------------------------
(* detectPII *)

\* detectPII with the generic flag pushed at the back instead of inserted at
\* the front
detectPII_markerLast(text) ==
  LET issues == (IF regex_search(text, email_pattern)
                 THEN <<"Email address detected">> ELSE <<>>)
             \o (IF regex_search(text, phone_pattern)
                 THEN <<"Phone number detected">> ELSE <<>>)
             \o (IF regex_search(text, ssn_pattern)
                 THEN <<"Social Security Number detected">> ELSE <<>>)
  IN  IF issues # <<>> THEN issues \o <<"PII detected">> ELSE issues

detectPII(text) ==
  LET issues == (IF regex_search(text, email_pattern)
                 THEN <<"Email address detected">> ELSE <<>>)
             \o (IF regex_search(text, phone_pattern)
                 THEN <<"Phone number detected">> ELSE <<>>)
             \o (IF regex_search(text, ssn_pattern)
                 THEN <<"Social Security Number detected">> ELSE <<>>)
  IN  IF issues # <<>> THEN <<"PII detected">> \o issues ELSE issues

----------------------------------------------------------------------------
(* double *)

\* The one double that every comparison rejects.
NaN == -99999

\* a > b on doubles: the comparison a verdict would use had it been written
\* with > instead of >=
GT(a, b) == a # NaN /\ b # NaN /\ a > b

\* a >= b on doubles
GE(a, b) == a # NaN /\ b # NaN /\ a >= b

\* a * 0.8 on doubles (exact for the scores 1.0, 0.5 and 0.0)
Times08(a) == IF a = NaN THEN NaN ELSE (a * 80) \div 100

DEFAULT_THRESHOLD == 80

MAX_FILE_SIZE == 10 * 1024 * 1024

----------------------------------------------------------------------------
(* Texts.  A text is written as a body followed by `pad' filler bytes 'A'  *)
(* (the filler of TestLargeTextFileSizeExceeded), so that a text of the    *)
(* size cap can be written down.  No pattern literal is longer than        *)
(* LongestPattern characters and none consists of the letter a alone, the  *)
(* regular expressions look at most two characters past the body, and so a *)
(* detector finds in the body followed by LongestPattern fillers exactly   *)
(* what it finds in the whole text.                                        *)

Text(body, pad) == [body |-> body, pad |-> pad]

\* text.size()
size(text) == Len(text.body) + text.pad

AllPatterns ==
  sql_patterns \o xss_patterns \o cmd_patterns \o nosql_patterns
  \o ldap_patterns \o path_patterns \o xml_patterns \o template_patterns
  \o exec_patterns \o suspicious_patterns

LongestPattern ==
  LET lens == {Len(AllPatterns[k]) : k \in 1..Len(AllPatterns)}
  IN  CHOOSE n \in lens : \A m \in lens : m <= n

RECURSIVE Filler(_)
Filler(n) == IF n <= 0 THEN "" ELSE "A" \o Filler(n - 1)

\* the characters of the text a detector can tell apart
Content(text) ==
  text.body \o Filler(IF text.pad < LongestPattern THEN text.pad ELSE LongestPattern)

----------------------------------------------------------------------------
(* The texts and thresholds under study *)

\* A body is a concatenation of at most MaxFragments of these.
Fragments ==
  << "hi ", "a@b.co ", "555-234-5678 ", "' OR 1=1-- ", "x.bind(y) " >>

MaxFragments == 2

\* Whole texts: those of the unit tests and one per remaining case.
WholeTexts ==
  { "This is a safe text message.",
    "Please contact me at john.doe@example.com",
    "Here is my phone number: +1234567890",
    "<script>alert('XSS')</script>",
    "ssn 123-45-6789",
    "mail a@b-c.d.ef, 212.555.1234 and 987-65-4321",
    "{{7*7}}",
    "EVAL(",
    "$elemMatch",
    "base64_decode(eval(",
    "<script>eval(base64_decode(x))</script>",
    "a.bind(b).bind(c)" }

\* Bodies that get filler up to the size cap and one byte past it.
PaddedBodies == {"", "a@b.co ", "; ls -l", "x.bind("}

RECURSIVE Concats(_)
Concats(n) ==
  IF n = 0 THEN {""}
  ELSE LET shorter == Concats(n - 1)
       IN  shorter \cup {b \o Fragments[k] : b \in shorter, k \in 1..Len(Fragments)}

Corpus ==
  {Text(b, 0) : b \in Concats(MaxFragments) \cup WholeTexts}
  \cup {Text(b, MAX_FILE_SIZE - Len(b) + over) : b \in PaddedBodies, over \in {0, 1}}

\* Values given to the constructor and to setThreshold.
Thresholds == {NaN, -50, 0, 50, DEFAULT_THRESHOLD, 100}

\* Values a double that was never assigned may hold.
IndeterminateDoubles == {NaN, -100, 50}

----------------------------------------------------------------------------
(* The detectors, tabulated once for the texts under study *)

AnalyzedStrings == {Content(t) : t \in {c \in Corpus : size(c) <= MAX_FILE_SIZE}}

PIIOf == [s \in AnalyzedStrings |-> detectPII(s)]

MaliciousOf == [s \in AnalyzedStrings |-> detectMaliciousContent(s)]

----------------------------------------------------------------------------
(* calculateSafetyScore, analyzeText *)

\* calculateSafetyScore with the second penalty chained by "else if"
calculateSafetyScore_elseIf(text) ==
  IF MaliciousOf[text] # <<>> THEN 50
  ELSE IF PIIOf[text] # <<>> THEN 50
  ELSE 100

\* calculateSafetyScore with a PII penalty of 0.1
calculateSafetyScore_smallPenalty(text) ==
  LET score0 == 100
      score1 == IF MaliciousOf[text] # <<>> THEN score0 - 50 ELSE score0
      score2 == IF PIIOf[text] # <<>> THEN score1 - 10 ELSE score1
  IN  score2

calculateSafetyScore(text) ==
  LET score0 == 100
      score1 == IF MaliciousOf[text] # <<>> THEN score0 - 50 ELSE score0
      score2 == IF PIIOf[text] # <<>> THEN score1 - 50 ELSE score1
  IN  score2

AnalysisResult(is_safe, confidence_score, detected_issues, analysis_summary) ==
  [ is_safe |-> is_safe, confidence_score |-> confidence_score,
    detected_issues |-> detected_issues, analysis_summary |-> analysis_summary ]

\* the size guard written with >=
exceedsMaxSize_inclusive(n) == n >= MAX_FILE_SIZE

\* text.size() > MAX_FILE_SIZE, pdf_data.size() > MAX_FILE_SIZE
exceedsMaxSize(n) == n > MAX_FILE_SIZE

\* the two inserts in the other order
collectIssues_maliciousFirst(pii_issues, malicious_issues) ==
  malicious_issues \o pii_issues

\* detected_issues after the two inserts at its end
collectIssues(pii_issues, malicious_issues) == pii_issues \o malicious_issues

\* threshold: the member threshold_ as line 58 reads it
analyzeText(text, threshold) ==
  IF exceedsMaxSize(size(text))
  THEN AnalysisResult(FALSE, 0, <<"File size exceeds maximum allowed size">>,
                      "Text exceeds maximum allowed size")
  ELSE LET s == Content(text)
           pii_issues == PIIOf[s]
           malicious_issues == MaliciousOf[s]
           confidence_score == calculateSafetyScore(s)
           is_safe == GE(confidence_score, threshold)
       IN  AnalysisResult(is_safe, confidence_score,
                          collectIssues(pii_issues, malicious_issues),
                          "Text analysis completed. "
                          \o (IF is_safe THEN "No security issues detected."
                              ELSE "Potential security issues identified."))

----------------------------------------------------------------------------
(* analyzePDF.  The poppler document of pdf_data is an input: the loader   *)
(* returns no document ("null"), the loader or the extractor throws a      *)
(* std::exception ("throw"), or there is a document ("doc") with its       *)
(* extracted text and its has_embedded_files() answer.  For "null" and     *)
(* "throw" the text field is what the bytes would have yielded.            *)

Pdf(sz, load, text, has_embedded_files) ==
  [ size |-> sz, load |-> load, text |-> text,
    has_embedded_files |-> has_embedded_files ]

\* e.what() of the exception thrown while loading or extracting
ExceptionWhat == "std::bad_alloc"

\* the !doc branch without its return: control reaches the analysis below
loadFailed_noReturn(load) == FALSE

\* !doc
loadFailed(load) == load = "null"

\* the penalty applied whatever the verdict of the text analysis
embeddedFilesPenalty_unguarded(r, has_embedded_files) ==
  IF has_embedded_files
  THEN [r EXCEPT !.detected_issues = Append(@, "PDF contains embedded files"),
                 !.confidence_score = Times08(@)]
  ELSE r

\* if (result.is_safe) { if (doc->has_embedded_files()) { ... } }
embeddedFilesPenalty(r, has_embedded_files) ==
  IF r.is_safe /\ has_embedded_files
  THEN [r EXCEPT !.detected_issues = Append(@, "PDF contains embedded files"),
                 !.confidence_score = Times08(@)]
  ELSE r

\* The same with the summary written last, from the verdict that is returned.
analyzePDF_summaryLast(pdf_data, threshold58, threshold291, unset) ==
  LET fresh == AnalysisResult(FALSE, unset, <<>>, "")
  IN
  IF exceedsMaxSize(pdf_data.size)
  THEN [fresh EXCEPT !.is_safe = FALSE,
          !.detected_issues = <<"File size exceeds maximum allowed size">>]
  ELSE IF loadFailed(pdf_data.load)
  THEN [fresh EXCEPT !.is_safe = FALSE,
          !.detected_issues = <<"invalid_or_corrupted_pdf">>]
  ELSE IF pdf_data.load = "throw"
  THEN [fresh EXCEPT !.is_safe = FALSE,
          !.detected_issues = <<"Error processing PDF: " \o ExceptionWhat>>]
  ELSE LET analyzed == analyzeText(pdf_data.text, threshold58)
           penalized == embeddedFilesPenalty(analyzed, pdf_data.has_embedded_files)
           safe == GE(penalized.confidence_score, threshold291)
       IN  [penalized EXCEPT !.is_safe = safe,
              !.analysis_summary = "PDF analysis completed. "
                \o (IF safe
                    THEN "No security issues detected in extracted text."
                    ELSE "Potential security issues identified in extracted text.")]

\* unset: what the never-assigned confidence_score of `AnalysisResult result;' holds
\* threshold58, threshold291: threshold_ as lines 58 and 291 read it
analyzePDF(pdf_data, threshold58, threshold291, unset) ==
  LET fresh == AnalysisResult(FALSE, unset, <<>>, "")
  IN
  IF exceedsMaxSize(pdf_data.size)
  THEN [fresh EXCEPT !.is_safe = FALSE,
                     !.detected_issues = <<"File size exceeds maximum allowed size">>]
  ELSE IF loadFailed(pdf_data.load)
  THEN [fresh EXCEPT !.is_safe = FALSE,
                     !.detected_issues = <<"invalid_or_corrupted_pdf">>]
  ELSE IF pdf_data.load = "throw"
  THEN [fresh EXCEPT !.is_safe = FALSE,
                     !.detected_issues = <<"Error processing PDF: " \o ExceptionWhat>>]
  ELSE LET analyzed == analyzeText(pdf_data.text, threshold58)
           summarized ==
             [analyzed EXCEPT !.analysis_summary =
                "PDF analysis completed. "
                \o (IF analyzed.is_safe
                    THEN "No security issues detected in extracted text."
                    ELSE "Potential security issues identified in extracted text.")]
           penalized == embeddedFilesPenalty(summarized, pdf_data.has_embedded_files)
       IN  [penalized EXCEPT !.is_safe = GE(penalized.confidence_score, threshold291)]

----------------------------------------------------------------------------
(* SecurityAnalyzer::isContentSafe *)

\* member is threshold_, which analyzeText reads at line 58.
isContentSafe(content, threshold, member) ==
  LET r == analyzeText(content, member)
  IN  r.is_safe /\ GE(r.confidence_score, threshold)

----------------------------------------------------------------------------
(* MLInference.  Floats are integers counting hundredths, as the doubles.  *)

\* What a float division by zero yields besides NaN.
Inf == 99999

\* std::numeric_limits<float>::max(), larger than every score of the model.
FLT_MAX == 99998

\* static_cast<float>(n)
Float(n) == n * 100

\* a / b on floats: a zero divisor gives NaN (0/0) or infinity.
FDiv(a, b) ==
  IF b = 0 THEN (IF a = 0 THEN NaN ELSE Inf) ELSE (a * 100) \div b

\* size_t is unsigned: a - b wraps around.  The build's width is 64; the
\* model keeps a width that the integers of TLC hold, with 2^SizeBits still
\* larger than the length of every text.
SizeBits == 30

SizeSub(a, b) == (a - b) % (2 ^ SizeBits)

\* The characters of the texts in the order of their codes.
Ascii ==
  " !\"#$%&'()*+,-./0123456789:;<=>?@ABCDEFGHIJKLMNOPQRSTUVWXYZ[\\]^_"
  \o BACKQUOTE \o "abcdefghijklmnopqrstuvwxyz{|}"

Code(c) == CHOOSE i \in 1..Len(Ascii) : CharAt(Ascii, i) = c

RECURSIVE LessFrom(_, _, _)
LessFrom(s, t, i) ==
  IF i > Len(s) THEN i <= Len(t)
  ELSE IF i > Len(t) THEN FALSE
  ELSE IF CharAt(s, i) = CharAt(t, i) THEN LessFrom(s, t, i + 1)
  ELSE Code(CharAt(s, i)) < Code(CharAt(t, i))

\* std::map<std::string, int> iterates its keys in this order.
Less(s, t) == LessFrom(s, t, 1)

RECURSIVE KeysInOrder(_)
KeysInOrder(keys) ==
  IF keys = {} THEN <<>>
  ELSE LET k == CHOOSE k \in keys : \A o \in keys \ {k} : Less(k, o)
       IN  <<k>> \o KeysInOrder(keys \ {k})

isupper(c) == c \in CharsOf(UpperCase)

isalpha(c) == c \in Alpha

isalnum(c) == c \in Alnum

isspace(c) == c \in SpaceChars

\* std::count_if over the text; matching holds the characters for which the
\* predicate is true.
count_if(text, matching) ==
  Cardinality({i \in 1..Len(text) : CharAt(text, i) \in matching})

isSpecial(c) == ~isalnum(c) /\ ~isspace(c)

processTextFeatures(text) ==
  << Float(Len(text)),
     FDiv(count_if(text, {c \in CharsOf(text) : isupper(c)}), Len(text)),
     FDiv(count_if(text, {c \in CharsOf(text) : isSpecial(c)}), Len(text)) >>

\* text.substr(pos, n), pos counted from 0 and pos <= text.size()
substr(text, pos, n) ==
  SubSeq(text, pos + 1, IF pos + n < Len(text) THEN pos + n ELSE Len(text))

\* for (size_t i = 0; i < text.length() - 1; ++i) ngrams[text.substr(i, 2)]++;
\* grams lists the keys incremented so far.  substr throws
\* std::out_of_range as soon as i is greater than the size of the text.
RECURSIVE countNgrams(_, _, _)
countNgrams(text, i, grams) ==
  IF ~(i < SizeSub(Len(text), 1)) THEN [threw |-> FALSE, grams |-> grams]
  ELSE IF i > Len(text) THEN [threw |-> TRUE, grams |-> grams]
  ELSE countNgrams(text, i + 1, Append(grams, substr(text, i, 2)))

processNgramFeatures(text) ==
  LET counted == countNgrams(text, 0, <<>>)
      grams == counted.grams
      keys == KeysInOrder({grams[i] : i \in 1..Len(grams)})
      count(k) == Cardinality({i \in 1..Len(grams) : grams[i] = k})
  IN  [threw |-> counted.threw,
       features |-> [j \in 1..Len(keys) |-> FDiv(count(keys[j]), Len(text))]]

\* std::distance over std::istream_iterator<std::string>: the number of
\* maximal runs of characters that are not white space.
wordCount(text) ==
  Cardinality({i \in 1..Len(text) :
     /\ ~isspace(CharAt(text, i))
     /\ (i = 1 \/ isspace(CharAt(text, i - 1)))})

processStatisticalFeatures(text) ==
  << Float(wordCount(text)),
     FDiv(count_if(text, {c \in CharsOf(text) : isalpha(c)}), wordCount(text)) >>

Returned(value) == [outcome |-> "return", what |-> "", value |-> value]

Thrown(what) == [outcome |-> "throw", what |-> what, value |-> <<>>]

extractFeatures(text) ==
  LET text_features == processTextFeatures(text)
      ngram_features == processNgramFeatures(text)
      statistical_features == processStatisticalFeatures(text)
  IN  IF ngram_features.threw
      THEN Thrown("std::out_of_range")
      ELSE Returned(text_features \o ngram_features.features
                      \o statistical_features)

\* A failing load that drops the model loaded before.
loadModel_resetOnFailure(sess, loadable) ==
  [session |-> loadable, returned |-> loadable]

\* loadable: whether Ort::Session can be constructed from model_path.  The
\* constructor throws before session is assigned.
loadModel(sess, loadable) ==
  IF loadable
  THEN [session |-> TRUE, returned |-> TRUE]
  ELSE [session |-> sess, returned |-> FALSE]

\* What session->Run does with the input tensor.
Ran(output) == [threw |-> FALSE, what |-> "", output |-> output]

RunThrew(what) == [threw |-> TRUE, what |-> what, output |-> <<>>]

\* The loop of lines 57-62, from element i on (elements counted from 0).
RECURSIVE maxElement(_, _, _, _)
maxElement(output_data, i, max_score, max_idx) ==
  IF i >= Len(output_data) THEN [max_score |-> max_score, max_idx |-> max_idx]
  ELSE IF output_data[i + 1] # NaN /\ output_data[i + 1] > max_score
       THEN maxElement(output_data, i + 1, output_data[i + 1], i)
       ELSE maxElement(output_data, i + 1, max_score, max_idx)

ModelPrediction(label, confidence, scores) ==
  [label |-> label, confidence |-> confidence, scores |-> scores]

\* prediction.scores[i == 0 ? "SAFE" : "MALICIOUS"] = scores[i], in turn
classScores(output_data) ==
  [l \in (IF Len(output_data) >= 1 THEN {"SAFE"} ELSE {})
         \cup (IF Len(output_data) >= 2 THEN {"MALICIOUS"} ELSE {}) |->
     IF l = "SAFE" THEN output_data[1] ELSE output_data[Len(output_data)]]

predict(sess, features, run) ==
  IF ~sess THEN Thrown("Model not loaded")
  ELSE IF run.threw THEN Thrown("Inference error: " \o run.what)
  ELSE LET m == maxElement(run.output, 0, -FLT_MAX, -1)
       IN  Returned(ModelPrediction(
             IF m.max_idx = 0 THEN "SAFE" ELSE "MALICIOUS",
             m.max_score, classScores(run.output)))

----------------------------------------------------------------------------
(* The two objects as state machines.  threshold_ is the analyzer's only   *)
(* member; call and result record its most recent call and what it         *)
(* returned.  session is the only member of MLInference that changes; ml   *)
(* records its most recent call.  earlier and loads are history variables. *)

NoText == Text("", 0)

NoPdf == Pdf(0, "null", NoText, FALSE)

NoResult == AnalysisResult(FALSE, 0, <<>>, "")

Call(op, text, pdf, threshold) ==
  [op |-> op, text |-> text, pdf |-> pdf, threshold |-> threshold]

\* Documents: every text of the corpus, with and without embedded files.
\* Failing loads: at each size around the cap, bytes that hide a flagged text.
PdfInputs ==
  {Pdf(MAX_FILE_SIZE - 1, "doc", t, e) : t \in Corpus, e \in BOOLEAN}
  \cup {Pdf(sz, l, Text("a@b.co x.bind(y) ", 0), e) :
          sz \in {MAX_FILE_SIZE - 1, MAX_FILE_SIZE, MAX_FILE_SIZE + 1},
          l \in {"null", "throw", "doc"}, e \in BOOLEAN}

\* No analyzeText call is remembered.
NoEarlier ==
  [known |-> FALSE, text |-> NoText, threshold |-> 0, result |-> NoResult,
   between |-> {}]

\* No loadModel call has returned.
NoLoads == [succeeded |-> FALSE, failed_since |-> FALSE]

MLCall(op, arg, was_loaded, out) ==
  [op |-> op, arg |-> arg, was_loaded |-> was_loaded,
   outcome |-> out.outcome, what |-> out.what, value |-> out.value]

\* No analyzePDF call is running step by step.
NoPdfCall ==
  [pc |-> "idle", pdf_data |-> NoPdf, unset |-> 0, t_old |-> 0,
   read58 |-> <<>>, read291 |-> <<>>, sets |-> <<>>]

\* SecurityAnalyzer(double threshold) and MLInference()
Init ==
  /\ threshold_ \in Thresholds
  /\ call = Call("new", NoText, NoPdf, threshold_)
  /\ result = NoResult
  /\ earlier = NoEarlier
  /\ session = FALSE
  /\ loads = NoLoads
  /\ ml = MLCall("new", <<>>, FALSE, Returned(<<>>))
  /\ pdf_call = NoPdfCall

SetThreshold(threshold) ==
  /\ threshold_' = threshold
  /\ call' = Call("setThreshold", NoText, NoPdf, threshold)
  /\ result' = NoResult

AnalyzeText(text) ==
  /\ call' = Call("analyzeText", text, NoPdf, threshold_)
  /\ result' = analyzeText(text, threshold_)
  /\ UNCHANGED threshold_

AnalyzePDF(pdf_data, unset) ==
  /\ call' = Call("analyzePDF", NoText, pdf_data, threshold_)
  /\ result' = analyzePDF(pdf_data, threshold_, threshold_, unset)
  /\ UNCHANGED threshold_

\* The bool that isContentSafe returns.
Bool(returned) == [returned |-> returned]

\* A slip: the argument is stored as the threshold of the instance and the
\* verdict of analyzeText is returned.
IsContentSafe_storesThreshold(content, threshold) ==
  /\ threshold_' = threshold
  /\ call' = Call("isContentSafe", content, NoPdf, threshold)
  /\ result' = Bool(analyzeText(content, threshold).is_safe)

IsContentSafe(content, threshold) ==
  /\ call' = Call("isContentSafe", content, NoPdf, threshold)
  /\ result' = Bool(isContentSafe(content, threshold, threshold_))
  /\ UNCHANGED threshold_

AnalyzerUnchanged ==
  UNCHANGED <<threshold_, call, result, earlier, pdf_call>>

MLUnchanged == UNCHANGED <<session, loads, ml>>

\* The calls of the analyzer run one after the other.
Serialized == UNCHANGED pdf_call

\* The analyzer alone, on the whole corpus.
Next ==
  \/ \E t \in Thresholds : SetThreshold(t) /\ UNCHANGED earlier /\ MLUnchanged /\ Serialized
  \/ \E text \in Corpus : AnalyzeText(text) /\ UNCHANGED earlier /\ MLUnchanged /\ Serialized
  \/ \E pdf_data \in PdfInputs, unset \in IndeterminateDoubles :
       AnalyzePDF(pdf_data, unset) /\ UNCHANGED earlier /\ MLUnchanged /\ Serialized

Spec == Init /\ [][Next]_vars

\* Sequences of calls on one analyzer: a clean text, a text with an e-mail
\* address, a text both detectors flag and a text over the cap.
FewTexts ==
  { Text("This is a safe text message.", 0),
    Text("Please contact me at john.doe@example.com", 0),
    Text("a@b.co x.bind(y) ", 0),
    Text("", MAX_FILE_SIZE + 1) }

FewPdfs ==
  {Pdf(MAX_FILE_SIZE - 1, "doc", t, e) : t \in FewTexts, e \in BOOLEAN}
  \cup {Pdf(MAX_FILE_SIZE - 1, "null", NoText, FALSE)}

\* earlier after an analyzeText call that is remembered from now on
Remember(text, threshold, returned) ==
  [known |-> TRUE, text |-> text, threshold |-> threshold,
   result |-> returned, between |-> {}]

\* earlier after another call, made after the remembered one
Between(op) ==
  IF earlier.known THEN [earlier EXCEPT !.between = @ \cup {op}] ELSE earlier

NextCalls ==
  \/ \E t \in Thresholds :
       SetThreshold(t) /\ earlier' = NoEarlier /\ MLUnchanged /\ Serialized
  \/ \E text \in FewTexts :
       /\ AnalyzeText(text)
       /\ earlier' \in {Remember(text, threshold_, result'),
                        IF earlier.known /\ earlier.text = text
                        THEN earlier ELSE Between("analyzeText")}
       /\ MLUnchanged /\ Serialized
  \/ \E pdf_data \in FewPdfs, unset \in IndeterminateDoubles :
       AnalyzePDF(pdf_data, unset) /\ earlier' = Between("analyzePDF")
       /\ MLUnchanged /\ Serialized
  \/ \E content \in FewTexts, threshold \in Thresholds :
       IsContentSafe(content, threshold)
       /\ earlier' = Between("isContentSafe") /\ MLUnchanged /\ Serialized

SpecCalls == Init /\ [][NextCalls]_vars

\* Texts given to extractFeatures: the empty text, white space only, one
\* character, and the texts of the corpus within the cap.
FeatureTexts ==
  {"", " ", "   ", "a", "Ab", "ab ab"}
  \cup {t.body : t \in {c \in Corpus : c.pad = 0}}

FeaturesOf == [text \in FeatureTexts |-> extractFeatures(text)]

\* Feature vectors given to predict
FeatureVectors == {<<>>} \cup {FeaturesOf[t].value : t \in {"a", "Ab"}}

\* What running the model gives: it fails, or there is one score per class.
RunOutcomes ==
  { RunThrew("Invalid input name: input"), Ran(<<>>), Ran(<<90, 10>>),
    Ran(<<20, 80>>), Ran(<<30, 30, 40>>) }

LoadModel(loadable) ==
  LET loaded == loadModel(session, loadable)
  IN  /\ session' = loaded.session
      /\ loads' = IF loaded.returned
                  THEN [succeeded |-> TRUE, failed_since |-> FALSE]
                  ELSE [loads EXCEPT !.failed_since = TRUE]
      /\ ml' = MLCall("loadModel", loadable, session, Returned(loaded.returned))

Predict(features, run) ==
  /\ ml' = MLCall("predict", features, session, predict(session, features, run))
  /\ UNCHANGED <<session, loads>>

ExtractFeatures(text) ==
  /\ ml' = MLCall("extractFeatures", text, session, FeaturesOf[text])
  /\ UNCHANGED <<session, loads>>

InitML == Init /\ threshold_ = DEFAULT_THRESHOLD

NextML ==
  \/ \E loadable \in BOOLEAN : LoadModel(loadable) /\ AnalyzerUnchanged
  \/ \E features \in FeatureVectors, run \in RunOutcomes :
       Predict(features, run) /\ AnalyzerUnchanged
  \/ \E text \in FeatureTexts : ExtractFeatures(text) /\ AnalyzerUnchanged

SpecML == InitML /\ [][NextML]_vars

\* detectMaliciousContent on the texts that consist of exactly one literal of
\* a pattern list.
Literals == {AllPatterns[k] : k \in 1..Len(AllPatterns)}

LiteralIssuesOf == [text \in Literals |-> detectMaliciousContent(text)]

DetectMaliciousContent(text) ==
  /\ call' = Call("detectMaliciousContent", Text(text, 0), NoPdf, threshold_)
  /\ result' = LiteralIssuesOf[text]
  /\ UNCHANGED threshold_

InitLiterals == Init /\ threshold_ = DEFAULT_THRESHOLD

NextLiterals ==
  \E text \in Literals :
    DetectMaliciousContent(text) /\ UNCHANGED earlier /\ MLUnchanged /\ Serialized

SpecLiterals == InitLiterals /\ [][NextLiterals]_vars

\* analyzePDF running beside setThreshold on the same analyzer, with no
\* lock.  The call reads threshold_ twice: at line 58, inside analyzeText,
\* and at line 291.
ReachesTextAnalysis(pdf_data) ==
  ~exceedsMaxSize(pdf_data.size) /\ pdf_data.load = "doc"

Running == pdf_call.pc \in {"entered", "analyzed"}

\* lines 247-274: the call is made, nothing of threshold_ is read yet
AnalyzePDFEnter(pdf_data, unset) ==
  /\ ~Running
  /\ pdf_call' = [pc |-> "entered", pdf_data |-> pdf_data, unset |-> unset,
                  t_old |-> threshold_, read58 |-> <<>>, read291 |-> <<>>,
                  sets |-> <<>>]
  /\ call' = Call("analyzePDF", NoText, pdf_data, threshold_)
  /\ result' = NoResult
  /\ UNCHANGED threshold_

\* line 275: analyzeText runs on the extracted text and reads threshold_
AnalyzePDFLine58 ==
  /\ pdf_call.pc = "entered"
  /\ ReachesTextAnalysis(pdf_call.pdf_data)
  /\ pdf_call' = [pdf_call EXCEPT !.pc = "analyzed", !.read58 = <<threshold_>>]
  /\ UNCHANGED <<threshold_, call, result>>

\* What the read of line 291 can see.  The two reads race with the write
\* of setThreshold: the read sees what threshold_ holds now or, again, the
\* value that line 58 saw (a build may keep it in a register).
SeenAt291 ==
  {threshold_}
  \cup (IF pdf_call.pc = "analyzed" THEN {pdf_call.read58[1]} ELSE {})

\* The same return with line 58 evaluated again, under what line 291 reads.
AnalyzePDFReturn_rereads(threshold291) ==
  /\ \/ pdf_call.pc = "analyzed"
     \/ pdf_call.pc = "entered" /\ ~ReachesTextAnalysis(pdf_call.pdf_data)
  /\ call' = Call("analyzePDF", NoText, pdf_call.pdf_data, threshold291)
  /\ result' = analyzePDF(pdf_call.pdf_data, threshold291, threshold291,
                          pdf_call.unset)
  /\ pdf_call' = [pdf_call EXCEPT !.pc = "returned", !.read291 = <<threshold291>>]
  /\ UNCHANGED threshold_

\* lines 277-298, or the return of a call that never reaches analyzeText:
\* line 291 reads threshold_ and sees threshold291
AnalyzePDFReturn(threshold291) ==
  /\ \/ pdf_call.pc = "analyzed"
     \/ pdf_call.pc = "entered" /\ ~ReachesTextAnalysis(pdf_call.pdf_data)
  /\ LET threshold58 == IF pdf_call.pc = "analyzed"
                        THEN pdf_call.read58[1] ELSE threshold291
     IN  /\ call' = Call("analyzePDF", NoText, pdf_call.pdf_data, threshold291)
         /\ result' = analyzePDF(pdf_call.pdf_data, threshold58, threshold291,
                                 pdf_call.unset)
  /\ pdf_call' = [pdf_call EXCEPT !.pc = "returned", !.read291 = <<threshold291>>]
  /\ UNCHANGED threshold_

\* setThreshold from another thread: at most once while analyzePDF runs.  The
\* call record stays the one of the running analyzePDF.
SetThresholdBeside(threshold) ==
  /\ Running
  /\ pdf_call.sets = <<>>
  /\ threshold_' = threshold
  /\ pdf_call' = [pdf_call EXCEPT !.sets = <<threshold>>]
  /\ UNCHANGED <<call, result>>

NextRace ==
  \/ \E pdf_data \in FewPdfs, unset \in IndeterminateDoubles :
       AnalyzePDFEnter(pdf_data, unset) /\ UNCHANGED earlier /\ MLUnchanged
  \/ AnalyzePDFLine58 /\ UNCHANGED earlier /\ MLUnchanged
  \/ \E threshold291 \in SeenAt291 :
       AnalyzePDFReturn(threshold291) /\ UNCHANGED earlier /\ MLUnchanged
  \/ \E t \in Thresholds :
       SetThresholdBeside(t) /\ UNCHANGED earlier /\ MLUnchanged
  \/ \E t \in Thresholds :
       ~Running /\ SetThreshold(t) /\ Serialized /\ UNCHANGED earlier
       /\ MLUnchanged

SpecRace == Init /\ [][NextRace]_vars

----------------------------------------------------------------------------
(* Properties *)

\* the last call was analyzeText on a text within the size cap
AnalyzedText == call.op = "analyzeText" /\ size(call.text) <= MAX_FILE_SIZE

\* the last call was analyzePDF on a document that loaded and was extracted
AnalyzedDocument ==
  call.op = "analyzePDF" /\ call.pdf.size <= MAX_FILE_SIZE /\ call.pdf.load = "doc"

\* score >= threshold, as the specification words it
ScoreReaches(score, threshold) ==
  score # NaN /\ threshold # NaN /\ ~(score < threshold)

NoDuplicates(seq) == \A i, j \in 1..Len(seq) : i # j => seq[i] # seq[j]

IsPrefix(p, seq) == Len(p) <= Len(seq) /\ SubSeq(seq, 1, Len(p)) = p

SizeExceededResult ==
  [ is_safe |-> FALSE, confidence_score |-> 0,
    detected_issues |-> <<"File size exceeds maximum allowed size">>,
    analysis_summary |-> "Text exceeds maximum allowed size" ]

\* C1: for every text within the size cap and every threshold, the result of
\* analyzeText has is_safe exactly when confidence_score >= the threshold the
\* analyzer had at the call.
C1_VerdictIsScoreAgainstThreshold ==
  AnalyzedText =>
    (result.is_safe <=> ScoreReaches(result.confidence_score, call.threshold))

\* a text scoring 0.5 analyzed under the threshold 0.5: safe, at equality
C1_Witness ==
  /\ AnalyzedText
  /\ result.confidence_score = 50
  /\ call.threshold = 50
  /\ result.is_safe

\* C2: the rule-based score is 1.0 when neither detector returns an issue, 0.5
\* when exactly one of them does, 0.0 when both do; nothing else, never below 0.
C2_ScoreIsOneHalfOrZero ==
  AnalyzedText =>
    LET s == Content(call.text)
        flagged == {d \in {"malicious", "pii"} :
                      \/ d = "malicious" /\ detectMaliciousContent(s) # <<>>
                      \/ d = "pii" /\ detectPII(s) # <<>>}
    IN  /\ Cardinality(flagged) = 0 => result.confidence_score = 100
        /\ Cardinality(flagged) = 1 => result.confidence_score = 50
        /\ Cardinality(flagged) = 2 => result.confidence_score = 0
        /\ result.confidence_score \in {0, 50, 100}

\* both detectors fire on the analyzed text and the score is 0.0
C2_Witness ==
  /\ AnalyzedText
  /\ detectMaliciousContent(Content(call.text)) # <<>>
  /\ detectPII(Content(call.text)) # <<>>
  /\ result.confidence_score = 0

\* C3: a text of exactly the size cap is analyzed normally; a text of one byte
\* more (of any size above the cap) gets the size-exceeded result, whatever the
\* threshold, and no detector finding appears in it.
C3_SizeBoundary ==
  call.op = "analyzeText" =>
    /\ size(call.text) > MAX_FILE_SIZE => result = SizeExceededResult
    /\ size(call.text) = MAX_FILE_SIZE =>
         /\ result.detected_issues =
              detectPII(Content(call.text)) \o detectMaliciousContent(Content(call.text))
         /\ result # SizeExceededResult
         /\ IsPrefix("Text analysis completed. ", result.analysis_summary)

\* a text of exactly 10*1024*1024 bytes that holds an e-mail address: analyzed,
\* and the address reported
C3_Witness ==
  /\ call.op = "analyzeText"
  /\ size(call.text) = 10 * 1024 * 1024
  /\ result.detected_issues = <<"PII detected", "Email address detected">>
  /\ result.confidence_score = 50

\* C4: under the default threshold 0.8, analyzeText reports safe exactly when
\* detected_issues is empty; a text on which a detector fires is not safe, a text
\* on which none fires is safe with confidence_score 1.0.
C4_DefaultThresholdSafeIffNoIssue ==
  (call.op = "analyzeText" /\ call.threshold = DEFAULT_THRESHOLD) =>
    /\ result.is_safe <=> result.detected_issues = <<>>
    /\ result.is_safe => result.confidence_score = 100
    /\ size(call.text) <= MAX_FILE_SIZE =>
         (result.is_safe <=>
            /\ detectPII(Content(call.text)) = <<>>
            /\ detectMaliciousContent(Content(call.text)) = <<>>)

\* under 0.8, a text with an e-mail address and nothing else: 0.5, not safe
C4_Witness ==
  /\ call.op = "analyzeText"
  /\ call.threshold = DEFAULT_THRESHOLD
  /\ result.detected_issues = <<"PII detected", "Email address detected">>
  /\ ~result.is_safe

\* C5: for every text within the size cap, detected_issues is the sequence of
\* detectPII(text) followed by the sequence of detectMaliciousContent(text).
C5_IssuesArePiiThenMalicious ==
  AnalyzedText =>
    result.detected_issues =
      detectPII(Content(call.text)) \o detectMaliciousContent(Content(call.text))

\* a text on which both detectors report
C5_Witness ==
  /\ AnalyzedText
  /\ Len(detectPII(Content(call.text))) >= 2
  /\ Len(detectMaliciousContent(Content(call.text))) >= 1
  /\ result.detected_issues[1] = "PII detected"

\* the three PII categories in their fixed order, with what the text matches
PiiCategories(s) ==
  << [issue |-> "Email address detected", hit |-> regex_search(s, email_pattern)],
     [issue |-> "Phone number detected", hit |-> regex_search(s, phone_pattern)],
     [issue |-> "Social Security Number detected", hit |-> regex_search(s, ssn_pattern)] >>

\* C6: detectPII returns the empty sequence when no pattern matches; otherwise
\* "PII detected" first, then one entry per matching pattern in the order e-mail,
\* phone, SSN, each at most once.
C6_PiiMarkerThenCategories ==
  AnalyzedText =>
    LET cats == PiiCategories(Content(call.text))
        hits == SelectSeq(cats, LAMBDA c : c.hit)
        pii == SubSeq(result.detected_issues, 1,
                      IF hits = <<>> THEN 0 ELSE Len(hits) + 1)
    IN  /\ hits = <<>> =>
             \A k \in 1..Len(result.detected_issues) :
               /\ result.detected_issues[k] # "PII detected"
               /\ \A c \in 1..Len(cats) : result.detected_issues[k] # cats[c].issue
        /\ hits # <<>> =>
             /\ Len(result.detected_issues) >= Len(hits) + 1
             /\ pii[1] = "PII detected"
             /\ \A k \in 1..Len(hits) : pii[k + 1] = hits[k].issue
             /\ NoDuplicates(pii)
             /\ \A k \in (Len(pii) + 1)..Len(result.detected_issues) :
                  /\ result.detected_issues[k] # "PII detected"
                  /\ \A c \in 1..Len(cats) : result.detected_issues[k] # cats[c].issue

\* a text matching all three patterns
C6_Witness ==
  /\ AnalyzedText
  /\ result.detected_issues =
       << "PII detected", "Email address detected", "Phone number detected",
          "Social Security Number detected" >>

\* the malicious-content part of the last analyzeText result
MaliciousPart ==
  SubSeq(result.detected_issues, Len(detectPII(Content(call.text))) + 1,
         Len(result.detected_issues))

\* C7: the sequence returned by detectMaliciousContent holds no two equal issue
\* strings.
C7_NoDuplicateMaliciousIssue ==
  AnalyzedText => NoDuplicates(MaliciousPart)

\* C8: every AnalysisResult returned by analyzeText or analyzePDF carries a
\* confidence_score that is a defined value in [0,1].
C8_ScoreDefinedInUnitInterval ==
  call.op \in {"analyzeText", "analyzePDF"} =>
    /\ result.confidence_score # NaN
    /\ 0 <= result.confidence_score
    /\ result.confidence_score <= 100

\* C9: when the loader returns no document, analyzePDF returns is_safe = false
\* with detected_issues exactly <<"invalid_or_corrupted_pdf">>: no finding of
\* the text analysis appears, and a result is returned.
C9_NoDocumentIsInvalidPdf ==
  (call.op = "analyzePDF" /\ call.pdf.size <= MAX_FILE_SIZE /\ call.pdf.load = "null") =>
    /\ result.is_safe = FALSE
    /\ result.detected_issues = <<"invalid_or_corrupted_pdf">>

\* bytes of exactly the size cap for which the loader returns no document,
\* under a threshold every score reaches
C9_Witness ==
  /\ call.op = "analyzePDF"
  /\ call.pdf.size = MAX_FILE_SIZE
  /\ call.pdf.load = "null"
  /\ call.threshold = -50
  /\ result.detected_issues = <<"invalid_or_corrupted_pdf">>

\* C10: for a loadable document, analyzePDF appends "PDF contains embedded
\* files" and multiplies the score by 0.8 exactly when the text analysis said
\* safe and the document reports embedded files; otherwise issues and score are
\* those of analyzeText on the extracted text.  Either way is_safe is
\* (final confidence_score >= threshold).
C10_EmbeddedFilesPenalty ==
  AnalyzedDocument =>
    LET text_result == analyzeText(call.pdf.text, call.threshold)
    IN  /\ IF text_result.is_safe /\ call.pdf.has_embedded_files
           THEN /\ result.detected_issues =
                     text_result.detected_issues \o <<"PDF contains embedded files">>
                /\ result.confidence_score * 5 = text_result.confidence_score * 4
           ELSE /\ result.detected_issues = text_result.detected_issues
                /\ result.confidence_score = text_result.confidence_score
        /\ result.is_safe <=> ScoreReaches(result.confidence_score, call.threshold)

\* a clean document with embedded files under the threshold 1.0: the text is
\* safe at 1.0, the penalty brings 0.8, and the verdict turns unsafe
C10_Witness ==
  /\ AnalyzedDocument
  /\ call.threshold = 100
  /\ call.pdf.has_embedded_files
  /\ result.detected_issues = <<"PDF contains embedded files">>
  /\ result.confidence_score = 80
  /\ ~result.is_safe

----------------------------------------------------------------------------
(* Properties of isContentSafe, the threshold, the summary, the pattern
   categories and MLInference *)

InUnitInterval(x) == x # NaN /\ 0 <= x /\ x <= 100

\* C11: isContentSafe(content, threshold) returns true exactly when the
\* confidence score of content is at least the threshold argument, whatever
\* threshold the analyzer instance holds.  Stated for a text within the cap
\* and for thresholds, of the instance and of the call, between 0.0 and 1.0.
C11_DecidesAgainstArgument ==
  /\ call.op = "isContentSafe"
  /\ size(call.text) <= MAX_FILE_SIZE
  /\ InUnitInterval(threshold_)
  /\ InUnitInterval(call.threshold)
  =>
    (result.returned <=>
       ScoreReaches(calculateSafetyScore(Content(call.text)), call.threshold))

\* C12: after construction and after every setThreshold call the threshold
\* of the analyzer is a value between 0.0 and 1.0.
C12_ThresholdInUnitInterval == InUnitInterval(threshold_)

\* C13: an analyzeText call returns what an earlier analyzeText call with
\* the same text returned when no setThreshold call came between them,
\* whatever analysis calls did; the threshold is the one the earlier call
\* saw.
C13_SameTextSameResult ==
  earlier.known =>
    /\ threshold_ = earlier.threshold
    /\ (call.op = "analyzeText" /\ call.text = earlier.text =>
          result = earlier.result)

\* The remembered call was followed by an analyzeText call with another
\* text, an analyzePDF call and an isContentSafe call, then by the same text.
C13_Witness ==
  /\ earlier.known
  /\ call.op = "analyzeText"
  /\ call.text = earlier.text
  /\ earlier.between = {"analyzeText", "analyzePDF", "isContentSafe"}
  /\ earlier.result.detected_issues # <<>>

\* C14: a text whose only flagged content is a phone number written as "+"
\* and ten digits is not safe under the default threshold.
C14_PlusTenDigitsNotSafe ==
  /\ call.op = "analyzeText"
  /\ call.text.body = "Here is my phone number: +1234567890"
  /\ call.threshold = DEFAULT_THRESHOLD
  => ~result.is_safe

\* The summary an analysis ends with, for a text and for a document.
TextSummary(safe) ==
  "Text analysis completed. "
    \o (IF safe THEN "No security issues detected."
        ELSE "Potential security issues identified.")

PdfSummary(safe) ==
  "PDF analysis completed. "
    \o (IF safe THEN "No security issues detected in extracted text."
        ELSE "Potential security issues identified in extracted text.")

\* The verdict of the text analysis that analyzePDF runs on the extracted
\* text, before anything specific to documents.
TextVerdict ==
  /\ size(call.pdf.text) <= MAX_FILE_SIZE
  /\ ScoreReaches(calculateSafetyScore(Content(call.pdf.text)), call.threshold)

\* C15 as stated: the summary names the verdict that is returned, for an
\* analyzed text and for a document that reached the text analysis (here
\* with an extracted text within the cap).
C15_SummaryMatchesReturnedVerdict ==
  /\ AnalyzedText => result.analysis_summary = TextSummary(result.is_safe)
  /\ AnalyzedDocument /\ size(call.pdf.text) <= MAX_FILE_SIZE =>
       result.analysis_summary = PdfSummary(result.is_safe)

\* C15 amended: the summary of analyzeText names the returned verdict; the
\* summary of analyzePDF names the verdict of the analysis of the extracted
\* text, which the embedded-files penalty and the final comparison may
\* leave behind.
C15_SummaryMatchesTextVerdict ==
  /\ AnalyzedText => result.analysis_summary = TextSummary(result.is_safe)
  /\ AnalyzedDocument => result.analysis_summary = PdfSummary(TextVerdict)

\* A document with embedded files whose text is clean: the summary reports
\* no issue, the returned verdict is not safe.
C15_Witness ==
  /\ AnalyzedDocument
  /\ call.pdf.has_embedded_files
  /\ result.analysis_summary = PdfSummary(TRUE)
  /\ ~result.is_safe

\* C16: predict returns a prediction only after some loadModel call returned
\* true; while none has, predict throws "Model not loaded"; a loadModel call
\* that returns false leaves session as it was.
C16_PredictNeedsLoadedModel ==
  /\ ml.op = "predict" /\ ml.outcome = "return" => loads.succeeded
  /\ ml.op = "predict" /\ ~loads.succeeded =>
       ml.outcome = "throw" /\ ml.what = "Model not loaded"
  /\ ml.op = "loadModel" /\ ml.value = FALSE => session = ml.was_loaded

\* A prediction from the model of a successful load that a failed load
\* followed.
C16_Witness ==
  /\ ml.op = "predict"
  /\ ml.outcome = "return"
  /\ ml.value.label = "SAFE"
  /\ loads.succeeded
  /\ loads.failed_since

\* C17: an analyzePDF result that carries the size-exceeded issue is not
\* safe, whatever the threshold (stated for thresholds between 0.0 and 1.0).
C17_SizeExceededNeverSafe ==
  /\ call.op = "analyzePDF"
  /\ InUnitInterval(call.threshold)
  /\ \E i \in DOMAIN result.detected_issues :
       result.detected_issues[i] = "File size exceeds maximum allowed size"
  => ~result.is_safe

\* The eight first-match categories in the order of the code: the issue of
\* each and its pattern list.
CategoryIssues ==
  << "Potential SQL injection attempt detected",
     "Potential XSS attack detected",
     "Potential command injection attempt detected",
     "Potential NoSQL injection attempt detected",
     "Potential LDAP injection attempt detected",
     "Potential path traversal attempt detected",
     "Potential XML/XXE injection attempt detected",
     "Potential template injection attempt detected" >>

CategoryPatterns ==
  << sql_patterns, xss_patterns, cmd_patterns, nosql_patterns, ldap_patterns,
     path_patterns, xml_patterns, template_patterns >>

\* The patterns of category k that occur: in the text s itself for the
\* template category, in the lower-cased text for the others.
Occurring(k, s, lower) ==
  LET hay == IF CategoryPatterns[k] = template_patterns THEN s ELSE lower
  IN  {j \in 1..Len(CategoryPatterns[k]) : find(hay, CategoryPatterns[k][j])}

Positions(seq, x) == {i \in 1..Len(seq) : seq[i] = x}

\* The entries of a report-every-match category: one for each entry of the
\* list that occurs in the lower-cased text, in list order, naming the token.
Entries(patterns, prefix, lower) ==
  LET hits == SelectSeq(patterns, LAMBDA p : find(lower, p))
  IN  [k \in 1..Len(hits) |-> prefix \o hits[k]]

\* C18: each first-match category contributes one issue when at least one
\* of its patterns occurs and none otherwise, whatever the earlier
\* categories found; these issues come first, in the order of the
\* categories; then one entry per occurring entry of the code-execution
\* list, then one per occurring entry of the suspicious-function list, each
\* naming its token.
C18_OnePerCategoryThenEveryMatch ==
  AnalyzedText =>
    LET s == Content(call.text)
        lower == transform_tolower(s)
        part == MaliciousPart
        raised == {k \in 1..Len(CategoryIssues) : Occurring(k, s, lower) # {}}
        n == Cardinality(raised)
        exec == Entries(exec_patterns,
                        "Potential code execution attempt detected: ", lower)
        suspicious == Entries(suspicious_patterns,
                              "Suspicious function detected: ", lower)
    IN  /\ \A k \in 1..Len(CategoryIssues) :
             Cardinality(Positions(part, CategoryIssues[k]))
               = IF k \in raised THEN 1 ELSE 0
        /\ \A k \in raised : \A i \in Positions(part, CategoryIssues[k]) :
             i = Cardinality({l \in raised : l <= k})
        /\ part = SubSeq(part, 1, n) \o exec \o suspicious

\* Two patterns of one category occur, a later category is raised too, and
\* both report-every-match categories have an entry.
C18_Witness ==
  /\ AnalyzedText
  /\ LET s == Content(call.text)
         lower == transform_tolower(s)
     IN  \E k \in 1..Len(CategoryIssues) :
           /\ Cardinality(Occurring(k, s, lower)) >= 2
           /\ \E l \in (k + 1)..Len(CategoryIssues) :
                Occurring(l, s, lower) # {}
  /\ \E i, j \in 1..Len(result.detected_issues) :
       /\ result.detected_issues[i]
            = "Potential code execution attempt detected: eval("
       /\ result.detected_issues[j] = "Suspicious function detected: base64"

\* c with the case of a letter changed
swapCase(c) ==
  IF \E i \in 1..Len(UpperCase) : CharAt(UpperCase, i) = c
  THEN CharAt(LowerCase, CHOOSE i \in 1..Len(UpperCase) : CharAt(UpperCase, i) = c)
  ELSE IF \E i \in 1..Len(LowerCase) : CharAt(LowerCase, i) = c
  THEN CharAt(UpperCase, CHOOSE i \in 1..Len(LowerCase) : CharAt(LowerCase, i) = c)
  ELSE c

\* s with the case changed of the letters at odd positions (stride 2) or of
\* all letters (stride 1)
RECURSIVE SwapCaseFrom(_, _, _)
SwapCaseFrom(s, i, stride) ==
  IF i > Len(s) THEN ""
  ELSE (IF i % stride = 0 THEN swapCase(CharAt(s, i)) ELSE CharAt(s, i))
         \o SwapCaseFrom(s, i + 1, stride)

NonTemplate(issues) ==
  SelectSeq(issues, LAMBDA x : x # "Potential template injection attempt detected")

\* What detectMaliciousContent reports outside the template category for the
\* analyzed texts with the letter case changed.
CaseChangedOf ==
  [s \in AnalyzedStrings |->
     [stride \in 1..2 |->
        NonTemplate(detectMaliciousContent(SwapCaseFrom(s, 1, stride)))]]

\* C19: the template issue is reported exactly when a template literal
\* occurs in the text as written; the issues of every other category are
\* the same for the text with the case of its letters changed.
C19_OnlyTemplateIsCaseSensitive ==
  AnalyzedText =>
    LET s == Content(call.text)
    IN  /\ ("Potential template injection attempt detected"
              \in {MaliciousPart[i] : i \in 1..Len(MaliciousPart)})
            <=> \E j \in 1..Len(template_patterns) : find(s, template_patterns[j])
        /\ \A stride \in 1..2 :
             NonTemplate(MaliciousPart) = CaseChangedOf[s][stride]

\* The text reads EVAL( in capitals: the lower-cased categories report it,
\* the template category, which lists eval(, does not.
C19_Witness ==
  /\ AnalyzedText
  /\ call.text.body = "EVAL("
  /\ result.detected_issues
       = << "Potential XSS attack detected",
            "Potential code execution attempt detected: eval(" >>

\* C20: for the empty text and for a text without a word, extractFeatures
\* returns normally, the 2-gram loop makes no iteration, and no feature is
\* the outcome of a division by zero.
C20_DegenerateTextHandled ==
  ml.op = "extractFeatures" /\ wordCount(ml.arg) = 0 =>
    /\ ml.outcome = "return"
    /\ Len(ml.arg) <= 1 => countNgrams(ml.arg, 0, <<>>).grams = <<>>
    /\ \A i \in 1..Len(ml.value) : ml.value[i] \notin {NaN, Inf}

\* C21: a text that is exactly one literal of a pattern list makes
\* detectMaliciousContent report the category of that list: the issue of the
\* category for the eight first-match lists, the entry naming the literal
\* for the code-execution and the suspicious-function lists.
C21_EveryLiteralIsLive ==
  call.op = "detectMaliciousContent" =>
    LET literal == call.text.body
        reported == {result[i] : i \in 1..Len(result)}
        listed(patterns) == \E j \in 1..Len(patterns) : patterns[j] = literal
    IN  /\ \A k \in 1..Len(CategoryIssues) :
             listed(CategoryPatterns[k]) => CategoryIssues[k] \in reported
        /\ listed(exec_patterns) =>
             ("Potential code execution attempt detected: " \o literal) \in reported
        /\ listed(suspicious_patterns) =>
             ("Suspicious function detected: " \o literal) \in reported

\* The last call was an analyzePDF call during which setThreshold ran once.
Interleaved ==
  /\ call.op = "analyzePDF"
  /\ pdf_call.pc = "returned"
  /\ Len(pdf_call.sets) = 1

\* What the same call returns when threshold_ is t from beginning to end.
Serial(t) == analyzePDF(pdf_call.pdf_data, t, t, pdf_call.unset)

====
